---- MODULE Spec2Model ----
(***************************************************************************)
(* Model of the arbitration-checker application: the Selenium connector    *)
(* (scraper/arbitr_scraper.py), the PostgreSQL gateway                     *)
(* (database/db_manager.py) and the coordinator                            *)
(* (core/application_logic.py), wired as in main.py.                       *)
(*                                                                         *)
(* Strings are sequences of characters (each character a one-token TLA+    *)
(* string).  A date in ISO text form is a triple <<year, month, day>>, a   *)
(* DATE value inside the table is the scalar year*10000 + month*100 + day, *)
(* Python None is the one-token sequence <<"None">> (no string, and not the *)
(* empty string) and SQL NULL is DbNull.                                   *)
(***************************************************************************)
EXTENDS Integers, Sequences, FiniteSets, TLC

(***************************************************************************)
(* Bounds of the model.                                                    *)
(***************************************************************************)
MaxRows == 3
MaxPageRows == 2
MaxResultsBound == 2

(***************************************************************************)
(* Characters.  "sup2" stands for U+00B2 SUPERSCRIPT TWO and "ar3" for     *)
(* U+0663 ARABIC-INDIC DIGIT THREE: Python's str.isdigit() is true of      *)
(* both, str.isdecimal() and the regex class \d only of the second.        *)
(***************************************************************************)
AsciiDigits == {"0", "1", "2", "3"}
UnicodeDecimalDigits == {"ar3"}
OtherDigits == {"sup2"}
Whitespace == {" "}

Rep(c, n) == [i \in 1..n |-> c]

Put(s, i, c) == [s EXCEPT ![i] = c]

\* str.isdigit(): non-empty and every character has the Unicode Digit property
IsDigitStr(s) ==
    /\ Len(s) > 0
    /\ \A i \in 1..Len(s) : s[i] \in AsciiDigits \cup UnicodeDecimalDigits \cup OtherDigits

\* a run of decimal digits, as matched by \d+ : every character is of category Nd
IsDecimalStr(s) ==
    /\ Len(s) > 0
    /\ \A i \in 1..Len(s) : s[i] \in AsciiDigits \cup UnicodeDecimalDigits

\* the validation condition of start_scraping, negated: the ID is accepted
InnAccepted(inn) ==
    ~ (Len(inn) = 0 \/ ~ IsDigitStr(inn) \/ Len(inn) \notin {10, 12})

\* str.strip(): drop leading and trailing whitespace
RECURSIVE LStrip(_)
LStrip(s) ==
    IF Len(s) > 0 /\ s[1] \in Whitespace THEN LStrip(Tail(s)) ELSE s

RECURSIVE RStrip(_)
RStrip(s) ==
    IF Len(s) > 0 /\ s[Len(s)] \in Whitespace
    THEN RStrip(SubSeq(s, 1, Len(s) - 1))
    ELSE s

Strip(s) == RStrip(LStrip(s))

\* lower-casing as ILIKE folds case
Lower(c) ==
    CASE c = "A" -> "a"
      [] c = "B" -> "b"
      [] OTHER -> c

(***************************************************************************)
(* Dates.                                                                  *)
(***************************************************************************)
None == <<"None">>

DbNull == -1

IsLeap(y) == (y % 4 = 0 /\ y % 100 # 0) \/ y % 400 = 0

DaysInMonth(y, m) ==
    CASE m \in {1, 3, 5, 7, 8, 10, 12} -> 31
      [] m \in {4, 6, 9, 11} -> 30
      [] OTHER -> IF IsLeap(y) THEN 29 ELSE 28

ValidYMD(y, m, d) ==
    /\ y \in 1..9999
    /\ m \in 1..12
    /\ d \in 1..DaysInMonth(y, m)

\* A date text scraped from a cell: fmt "dmy" is text of the shape D.M.Y,
\* any other fmt is text that '%d.%m.%Y' does not match.
DateText(fmt, d, m, y) == [y |-> y, m |-> m, d |-> d, fmt |-> fmt]

\* datetime.strptime(text, '%d.%m.%Y') succeeds
StrptimeOk(t) == t.fmt = "dmy" /\ ValidYMD(t.y, t.m, t.d)

\* .strftime('%Y-%m-%d') of the parsed date: year first
ParseCaseDate(t) == <<t.y, t.m, t.d>>

\* ordering of DATE values
DateLE(a, b) ==
    \/ a[1] < b[1]
    \/ a[1] = b[1] /\ a[2] < b[2]
    \/ a[1] = b[1] /\ a[2] = b[2] /\ a[3] <= b[3]

\* a date string PostgreSQL accepts for a DATE parameter
IsIsoDate(x) == Len(x) = 3 /\ ValidYMD(x[1], x[2], x[3])

\* psycopg2 adapts an ISO date string (or None) to a DATE parameter
ToDbDate(x) == IF x = None THEN DbNull ELSE x[1] * 10000 + x[2] * 100 + x[3]

\* datetime.date.isoformat() of a fetched DATE; NULL is fetched as None
IsoFormat(v) ==
    IF v = DbNull THEN None ELSE <<v \div 10000, (v \div 100) % 100, v % 100>>

(***************************************************************************)
(* The table arbitration_cases: a sequence of rows in heap order.          *)
(***************************************************************************)
Row(cn, v, inn) == [inn |-> inn, case_number |-> cn, case_date |-> v]

Case(cn, iso, inn) == [inn |-> inn, case_number |-> cn, case_date |-> iso]

HasCaseNumber(tbl, cn) == \E i \in 1..Len(tbl) : tbl[i].case_number = cn

\* variant: ON CONFLICT (case_number) DO UPDATE, the stored row is overwritten
InsertOnConflictDoUpdate(tbl, cn, v, inn) ==
    IF HasCaseNumber(tbl, cn)
    THEN [i \in 1..Len(tbl) |->
            IF tbl[i].case_number = cn THEN Row(cn, v, inn) ELSE tbl[i]]
    ELSE Append(tbl, Row(cn, v, inn))

\* variant: the row that holds the case_number is deleted, the new one added
InsertReplacingOlder(tbl, cn, v, inn) ==
    LET Other(r) == r.case_number # cn
    IN Append(SelectSeq(tbl, Other), Row(cn, v, inn))

\* INSERT ... ON CONFLICT (case_number) DO NOTHING
InsertOnConflictDoNothing(tbl, cn, v, inn) ==
    IF HasCaseNumber(tbl, cn) THEN tbl ELSE Append(tbl, Row(cn, v, inn))

\* variant: the return value is cursor.rowcount > 0, false for a duplicate
InsertCaseResultRowcount(tbl, cn, date, inn, conn) ==
    IF conn = "refused" THEN [tbl |-> tbl, ok |-> FALSE, executed |-> FALSE]
    ELSE IF conn = "error" \/ (date # None /\ ~ IsIsoDate(date))
    THEN [tbl |-> tbl, ok |-> FALSE, executed |-> FALSE]
    ELSE [tbl |-> InsertOnConflictDoNothing(tbl, cn, ToDbDate(date), inn),
          ok |-> ~ HasCaseNumber(tbl, cn),
          executed |-> TRUE]

\* DBManager.insert_case under one connection outcome:
\*   conn = "refused"  psycopg2.connect raises OperationalError (_get_connection
\*                     returns None)
\*   conn = "error"    the statement raises psycopg2.Error
\*   conn = "ok"       the statement runs and is committed
\* A date string that is not a calendar date makes the statement raise.
InsertCaseResult(tbl, cn, date, inn, conn) ==
    IF conn = "refused" THEN [tbl |-> tbl, ok |-> FALSE, executed |-> FALSE]
    ELSE IF conn = "error" \/ (date # None /\ ~ IsIsoDate(date))
    THEN [tbl |-> tbl, ok |-> FALSE, executed |-> FALSE]
    ELSE [tbl |-> InsertOnConflictDoNothing(tbl, cn, ToDbDate(date), inn),
          ok |-> TRUE,
          executed |-> TRUE]

\* s LIKE p with case folded (ILIKE): % matches any run, _ any one character
RECURSIVE ILike(_, _)
ILike(s, p) ==
    IF Len(p) = 0 THEN Len(s) = 0
    ELSE IF p[1] = "%"
         THEN ILike(s, Tail(p)) \/ (Len(s) > 0 /\ ILike(Tail(s), p))
         ELSE /\ Len(s) > 0
              /\ (p[1] = "_" \/ Lower(p[1]) = Lower(s[1]))
              /\ ILike(Tail(s), Tail(p))

\* f"%{filter}%"
Wrap(f) == <<"%">> \o f \o <<"%">>

\* the WHERE clause built by get_filtered_cases_as_dicts; a filter that is
\* None or empty adds no condition
\* variant: the date clauses are always part of the statement, so a row with
\* a NULL date is never selected
RowSelectedNullsDropped(r, cnf, innf, sd, ed) ==
    /\ (Len(cnf) > 0 => ILike(r.case_number, Wrap(cnf)))
    /\ (Len(innf) > 0 => ILike(r.inn, Wrap(innf)))
    /\ r.case_date # DbNull
    /\ (Len(sd) > 0 => r.case_date >= ToDbDate(sd))
    /\ (Len(ed) > 0 => r.case_date <= ToDbDate(ed))

\* variant: the bounds are compared with > and <
RowSelectedExclusiveBounds(r, cnf, innf, sd, ed) ==
    /\ (Len(cnf) > 0 => ILike(r.case_number, Wrap(cnf)))
    /\ (Len(innf) > 0 => ILike(r.inn, Wrap(innf)))
    /\ (Len(sd) > 0 => (r.case_date # DbNull /\ r.case_date > ToDbDate(sd)))
    /\ (Len(ed) > 0 => (r.case_date # DbNull /\ r.case_date < ToDbDate(ed)))

RowSelected(r, cnf, innf, sd, ed) ==
    /\ (Len(cnf) > 0 => ILike(r.case_number, Wrap(cnf)))
    /\ (Len(innf) > 0 => ILike(r.inn, Wrap(innf)))
    /\ (Len(sd) > 0 => (r.case_date # DbNull /\ r.case_date >= ToDbDate(sd)))
    /\ (Len(ed) > 0 => (r.case_date # DbNull /\ r.case_date <= ToDbDate(ed)))

RowToDict(r) == Case(r.case_number, IsoFormat(r.case_date), r.inn)

RECURSIVE SelectRows(_, _, _, _, _)
SelectRows(tbl, cnf, innf, sd, ed) ==
    IF Len(tbl) = 0 THEN <<>>
    ELSE LET rest == SelectRows(Tail(tbl), cnf, innf, sd, ed)
         IN IF RowSelected(Head(tbl), cnf, innf, sd, ed)
            THEN <<RowToDict(Head(tbl))>> \o rest
            ELSE rest

\* DBManager.get_filtered_cases_as_dicts: a refused connection or a statement
\* error (also a date parameter that is no calendar date) yields the empty list
GetFilteredCasesAsDicts(tbl, cnf, innf, sd, ed, conn) ==
    IF conn # "ok" THEN <<>>
    ELSE IF (Len(sd) > 0 /\ ~ IsIsoDate(sd)) \/ (Len(ed) > 0 /\ ~ IsIsoDate(ed))
    THEN <<>>
    ELSE SelectRows(tbl, cnf, innf, sd, ed)

\* DBManager.get_all_cases_as_dicts
GetAllCasesAsDicts(tbl, conn) ==
    IF conn # "ok" THEN <<>>
    ELSE [i \in 1..Len(tbl) |-> RowToDict(tbl[i])]

\* DBManager.case_exists
CaseExists(tbl, cn, conn) == conn = "ok" /\ HasCaseNumber(tbl, cn)

\* DBManager.get_all_cases: the rows as tuples, the date as the DATE value
GetAllCases(tbl, conn) ==
    IF conn # "ok" THEN <<>>
    ELSE [i \in 1..Len(tbl) |-> <<tbl[i].case_number, tbl[i].case_date, tbl[i].inn>>]

\* DBManager.create_table: true only when the script exists and runs
CreateTableResult(conn, scriptFound) == scriptFound /\ conn = "ok"

\* init_db.sql, the script create_table executes: it ensures that the table
\* exists and leaves the rows of an existing table as they are
InitDbScript(tbl) == tbl

\* the table after create_table
CreateTable(tbl, conn, scriptFound) ==
    IF CreateTableResult(conn, scriptFound) THEN InitDbScript(tbl) ELSE tbl

(***************************************************************************)
(* Events observed during one operation: status texts handed to the        *)
(* presentation layer, and calls made on the collaborators.                *)
(***************************************************************************)
Ev(ev, msg, n) == [n |-> n, cn |-> <<>>, ev |-> ev, msg |-> msg]

EvCn(ev, msg, n, cn) == [n |-> n, cn |-> cn, ev |-> ev, msg |-> msg]

\* n of a status text that carries no count
NoCount == -1

\* ApplicationLogic._update_status(message, level): msg names the text and n is
\* the number formatted into it
UpdateStatus(msg, n) == Ev("status", msg, n)

\* variant: conn.close() sits at the end of the try body, not in finally
DbConnectionNoFinally(conn) ==
    IF conn = "refused" THEN <<Ev("connect", "refused", 0)>>
    ELSE IF conn = "error" THEN <<Ev("connect", "ok", 0)>>
    ELSE <<Ev("connect", "ok", 0), Ev("close", conn, 0)>>

\* What one DBManager operation does with its connection: _get_connection
\* (psycopg2.connect, None when it raises OperationalError), the statement,
\* and "finally: if conn: conn.close()".
DbConnection(conn) ==
    IF conn = "refused" THEN <<Ev("connect", "refused", 0)>>
    ELSE <<Ev("connect", "ok", 0), Ev("close", conn, 0)>>

\* a DBManager operation seen from its caller: the call with what it returned,
\* then its connection events
DbCall(ev, ret, n, cn, conn) == <<EvCn(ev, ret, n, cn)>> \o DbConnection(conn)

(***************************************************************************)
(* The result page.  A row is one <tr> matched by the row XPath:           *)
(*   ncells    number of <td> cells                                        *)
(*   dateEl    "found" / "missing": the first element whose text has a '.' *)
(*   dateText  that element's text                                         *)
(*   linkEl    "found" / "missing": the <a href=".../Card/..."> link       *)
(*   linkText  the link's text                                             *)
(***************************************************************************)
PageRow(ncells, dateEl, dateText, linkEl, linkText) ==
    [ncells |-> ncells, dateEl |-> dateEl, dateText |-> dateText,
     linkEl |-> linkEl, linkText |-> linkText]

\* the loop's local variables; case_date_str and case_number are assigned only
\* inside "if len(cells) >= 4" and keep their value across iterations.
\* used counts the rows the loop body has run for (enumerate's i), and src[k]
\* is the index of the row whose iteration appended cases[k].
LoopInit ==
    [cases |-> <<>>,
     dateBound |-> FALSE, case_date_str |-> DateText("none", 0, 0, 0),
     numBound |-> FALSE, case_number |-> <<>>,
     used |-> 0, src |-> <<>>]

\* the part of the loop body after the "if len(cells) >= 4" block
AcceptRow(st, inn) ==
    IF ~ st.dateBound THEN st                      \* UnboundLocalError: row skipped
    ELSE IF ~ StrptimeOk(st.case_date_str) THEN st \* ValueError: case_date = None
    ELSE IF ~ st.numBound THEN st                  \* UnboundLocalError: row skipped
    ELSE IF Len(st.case_number) > 0
         THEN [st EXCEPT !.cases =
                  Append(@, Case(st.case_number, ParseCaseDate(st.case_date_str), inn)),
                         !.src = Append(@, st.used + 1)]
         ELSE st

\* variant: a missing case link does not end the iteration
ProcessRowLinkOptional(st, row, inn) ==
    IF row.ncells >= 4
    THEN IF row.dateEl = "missing" THEN st
         ELSE LET st1 == [st EXCEPT !.dateBound = TRUE,
                                    !.case_date_str = row.dateText]
              IN IF row.linkEl = "missing" THEN AcceptRow(st1, inn)
                 ELSE AcceptRow([st1 EXCEPT !.numBound = TRUE,
                                            !.case_number = Strip(row.linkText)], inn)
    ELSE AcceptRow(st, inn)

\* one iteration of the loop body (the except clauses skip the row)
ProcessRow(st, row, inn) ==
    IF row.ncells >= 4
    THEN IF row.dateEl = "missing" THEN st         \* NoSuchElementException
         ELSE LET st1 == [st EXCEPT !.dateBound = TRUE,
                                    !.case_date_str = row.dateText]
              IN IF row.linkEl = "missing" THEN st1 \* NoSuchElementException
                 ELSE AcceptRow([st1 EXCEPT !.numBound = TRUE,
                                            !.case_number = Strip(row.linkText)], inn)
    ELSE AcceptRow(st, inn)

\* variant: the loop never looks at max_results
RECURSIVE RowLoopNoLimit(_, _, _, _)
RowLoopNoLimit(st, rows, inn, max_results) ==
    IF Len(rows) = 0 THEN st
    ELSE RowLoopNoLimit([ProcessRow(st, Head(rows), inn) EXCEPT !.used = @ + 1],
                        Tail(rows), inn, max_results)

\* for i, row in enumerate(result_rows): stop once max_results records are held
RECURSIVE RowLoop(_, _, _, _)
RowLoop(st, rows, inn, max_results) ==
    IF Len(rows) = 0 THEN st
    ELSE IF Len(st.cases) >= max_results THEN st
    ELSE RowLoop([ProcessRow(st, Head(rows), inn) EXCEPT !.used = @ + 1],
                 Tail(rows), inn, max_results)

ScrapeRows(rows, inn, max_results) == RowLoop(LoopInit, rows, inn, max_results)

\* def scrape_arbitr_cases(self, inn, max_results=10)
DefaultMaxResults == 10

(***************************************************************************)
(* ArbitrScraper.scrape_arbitr_cases.  drv is self.driver before the call: *)
(* "None", "open" (a live session) or "quit" (a driver object whose        *)
(* session was closed by an earlier call).  env is what the environment    *)
(* does during this call:                                                  *)
(*   init   "ok" / "wde" (WebDriverException) / "other" (another exception)*)
(*   fault  "none", or the first fault before the row loop                 *)
(*   rows   the rows of the result page                                    *)
(***************************************************************************)
Faults == {"timeout_input", "timeout_button", "timeout_results",
           "webdriver", "other"}

\* variant: the session is not closed when the call ends
FinallyNoQuit(drv) == [driver |-> drv, evs |-> <<>>]

\* finally: if self.driver: self.driver.quit()
Finally(drv) ==
    IF drv = "None"
    THEN [driver |-> "None", evs |-> <<>>]
    ELSE [driver |-> "quit", evs |-> <<Ev("quit", drv, 0)>>]

\* ArbitrScraper._initialize_webdriver
InitializeWebdriver(init) == IF init = "ok" THEN "open" ELSE "None"

ScrapeArbitrCases(drv, inn, max_results, env) ==
    LET needInit == drv = "None"
        initEv == IF needInit THEN <<Ev("init_webdriver", env.init, 0)>> ELSE <<>>
        drv1 == IF needInit THEN InitializeWebdriver(env.init) ELSE drv
    IN IF needInit /\ env.init = "other"
       THEN [cases |-> <<>>, driver |-> "None", evs |-> initEv,
             raised |-> TRUE, failed |-> TRUE]
       ELSE IF drv1 = "None"
       THEN [cases |-> <<>>, driver |-> "None", evs |-> initEv,
             raised |-> FALSE, failed |-> TRUE]
       ELSE LET \* driver.get on a session that was quit raises inside the try
                fault == IF drv1 = "quit" THEN "webdriver" ELSE env.fault
                loop == ScrapeRows(env.rows, inn, max_results)
            IN [cases |-> IF fault = "none" THEN loop.cases ELSE <<>>,
                driver |-> Finally(drv1).driver,
                evs |-> initEv \o <<Ev("get", drv1, 0)>>
                        \o (IF fault = "none"
                            THEN <<Ev("rows", "read", loop.used)>>
                                 \o [k \in 1..Len(loop.src) |->
                                        EvCn("record", "appended", loop.src[k],
                                             loop.cases[k].case_number)]
                            ELSE <<Ev("fault", fault, 0)>>)
                        \o Finally(drv1).evs,
                raised |-> FALSE,
                failed |-> fault # "none"]

\* create_table seen from its caller: no connection is asked for when the
\* script file is not found
CreateTableEvents(conn, scriptFound) ==
    <<Ev("create_table",
         IF CreateTableResult(conn, scriptFound) THEN "true" ELSE "false", 0)>>
    \o (IF scriptFound THEN DbConnection(conn) ELSE <<>>)

(***************************************************************************)
(* ApplicationLogic.start_scraping.                                        *)
(***************************************************************************)
\* the insert loop: conns[i] is the connection outcome of the i-th insert_case
\* variant: the loop ends at the first insert_case that returns false
RECURSIVE InsertLoopStopOnFailure(_, _, _, _)
InsertLoopStopOnFailure(acc, cases, conns, i) ==
    IF i > Len(cases) THEN acc
    ELSE LET c == cases[i]
             r == InsertCaseResult(acc.tbl, c.case_number, c.case_date, c.inn, conns[i])
             next == [tbl |-> r.tbl,
                      evs |-> acc.evs \o DbCall("insert_case",
                                               IF r.ok THEN "true" ELSE "false",
                                               i, c.case_number, conns[i]),
                      inserted_count |-> acc.inserted_count + (IF r.ok THEN 1 ELSE 0)]
         IN IF r.ok THEN InsertLoopStopOnFailure(next, cases, conns, i + 1)
            ELSE next

RECURSIVE InsertLoop(_, _, _, _)
InsertLoop(acc, cases, conns, i) ==
    IF i > Len(cases) THEN acc
    ELSE LET c == cases[i]
             r == InsertCaseResult(acc.tbl, c.case_number, c.case_date, c.inn, conns[i])
         IN InsertLoop([tbl |-> r.tbl,
                        evs |-> acc.evs \o DbCall("insert_case",
                                                 IF r.ok THEN "true" ELSE "false",
                                                 i, c.case_number, conns[i]),
                        inserted_count |-> acc.inserted_count + (IF r.ok THEN 1 ELSE 0)],
                       cases, conns, i + 1)

\* variant: create_table is called after the insert loop
SaveCasesInsertFirst(tbl, cases, inn, ctConn, scriptFound, conns) ==
    IF Len(cases) > 0
    THEN LET loop == InsertLoop([tbl |-> tbl, evs |-> <<>>, inserted_count |-> 0],
                                cases, conns, 1)
         IN [tbl |-> CreateTable(loop.tbl, ctConn, scriptFound),
             evs |-> <<UpdateStatus("saving", NoCount)>>
                     \o loop.evs
                     \o CreateTableEvents(ctConn, scriptFound)
                     \o <<UpdateStatus("inserted", loop.inserted_count)>>]
    ELSE [tbl |-> tbl, evs |-> <<UpdateStatus("nothing_to_save", NoCount)>>]

\* variant: the "if scraped_cases" guard around the persistence step is missing
SaveCasesUnguarded(tbl, cases, inn, ctConn, scriptFound, conns) ==
    LET loop == InsertLoop([tbl |-> CreateTable(tbl, ctConn, scriptFound),
                            evs |-> <<>>, inserted_count |-> 0],
                           cases, conns, 1)
    IN [tbl |-> loop.tbl,
        evs |-> <<UpdateStatus("saving", NoCount)>>
                \o CreateTableEvents(ctConn, scriptFound)
                \o loop.evs
                \o <<UpdateStatus("inserted", loop.inserted_count)>>]

\* step 4 of start_scraping: persist the scraped cases
SaveCases(tbl, cases, inn, ctConn, scriptFound, conns) ==
    IF Len(cases) > 0
    THEN LET loop == InsertLoop([tbl |-> CreateTable(tbl, ctConn, scriptFound),
                                 evs |-> <<>>, inserted_count |-> 0],
                                cases, conns, 1)
         IN [tbl |-> loop.tbl,
             evs |-> <<UpdateStatus("saving", NoCount)>>
                     \o CreateTableEvents(ctConn, scriptFound)
                     \o loop.evs
                     \o <<UpdateStatus("inserted", loop.inserted_count)>>]
    ELSE [tbl |-> tbl, evs |-> <<UpdateStatus("nothing_to_save", NoCount)>>]

\* variant: the count in the status is one short
CountStatusOffByOne(cases) ==
    IF Len(cases) = 0
    THEN UpdateStatus("none_found_or_error", NoCount)
    ELSE UpdateStatus("found", Len(cases) - 1)

\* the status reported right after the connector returns
CountStatus(cases) ==
    IF Len(cases) = 0
    THEN UpdateStatus("none_found_or_error", NoCount)
    ELSE UpdateStatus("found", Len(cases))

\* The whole handler.  An exception that leaves scrape_arbitr_cases reaches
\* "except TimeoutException", a name the module never imports: evaluating the
\* clause raises NameError, which leaves start_scraping.
StartScrapingRun(tbl, drv, inn, env, ctConn, scriptFound, conns) ==
    LET begin == <<UpdateStatus("start", NoCount)>>
    IN IF ~ InnAccepted(inn)
       THEN [tbl |-> tbl, driver |-> drv, raised |-> "none", shown |-> <<>>,
             trace |-> begin \o <<UpdateStatus("invalid_inn", NoCount)>>]
       ELSE
       LET scr == ScrapeArbitrCases(drv, inn, DefaultMaxResults, env)
           called == begin \o <<UpdateStatus("scrape_begin", NoCount),
                                Ev("scrape_arbitr_cases", "call", 0)>> \o scr.evs
       IN IF scr.raised
          THEN [tbl |-> tbl, driver |-> scr.driver, raised |-> "NameError",
                shown |-> <<>>, trace |-> called]
          ELSE
          LET counted == <<CountStatus(scr.cases)>>
              pushed == <<UpdateStatus("gui_update", NoCount),
                          Ev("gui_results_updater", "show", Len(scr.cases))>>
              saved == SaveCases(tbl, scr.cases, inn, ctConn, scriptFound, conns)
          IN [tbl |-> saved.tbl, driver |-> scr.driver, raised |-> "none",
              shown |-> scr.cases,
              trace |-> called \o counted \o pushed \o saved.evs
                        \o <<UpdateStatus("finished", NoCount)>>]

\* variant: a refused connection is reported as an error, nothing is shown
FilterCasesRunReportsFault(tbl, cnf, innf, sd, ed, conn) ==
    LET filtered_cases == GetFilteredCasesAsDicts(tbl, cnf, innf, sd, ed, conn)
    IN IF conn = "refused"
       THEN [shown |-> <<>>,
             trace |-> <<UpdateStatus("filtering", NoCount),
                         Ev("get_filtered_cases_as_dicts", "call", 0)>>
                       \o DbConnection(conn)
                       \o <<UpdateStatus("db_connection_error", NoCount)>>]
       ELSE [shown |-> filtered_cases,
             trace |-> <<UpdateStatus("filtering", NoCount),
                         Ev("get_filtered_cases_as_dicts", "call", 0)>>
                       \o DbConnection(conn)
                       \o <<UpdateStatus("filtered", Len(filtered_cases)),
                           Ev("gui_results_updater", "show", Len(filtered_cases))>>]

\* ApplicationLogic.filter_cases
FilterCasesRun(tbl, cnf, innf, sd, ed, conn) ==
    LET filtered_cases == GetFilteredCasesAsDicts(tbl, cnf, innf, sd, ed, conn)
    IN [shown |-> filtered_cases,
        trace |-> <<UpdateStatus("filtering", NoCount),
                    Ev("get_filtered_cases_as_dicts", "call", 0)>>
                  \o DbConnection(conn)
                  \o <<UpdateStatus("filtered", Len(filtered_cases)),
                    Ev("gui_results_updater", "show", Len(filtered_cases))>>]

(***************************************************************************)
(* Export.  A file is [kind, lines]: kind "absent", "old" (what was at the  *)
(* path before), "csv" or "json".  A CSV file is its rows, each row the    *)
(* texts of its fields; a JSON file is the list of its objects.            *)
(***************************************************************************)
File(kind, lines) == [kind |-> kind, lines |-> lines]

AbsentFile == File("absent", <<>>)

OldFile == File("old", <<>>)

\* fieldnames = ['case_number', 'case_date', 'inn']
Fieldnames == <<"case_number", "case_date", "inn">>

\* variant: None is written as the text None
CsvFieldRepr(v) == IF v = None THEN <<"N", "o", "n", "e">> ELSE v

\* the csv writer writes None as the empty field and a string as itself
CsvField(v) == IF v = None THEN <<>> ELSE v

\* csv.DictWriter.writeheader
CsvHeader == [i \in 1..Len(Fieldnames) |-> <<Fieldnames[i]>>]

\* csv.DictWriter.writerows: one row per case, fields in fieldnames order
CsvRows(cases) ==
    [k \in 1..Len(cases) |->
        <<CsvField(cases[k].case_number), CsvField(cases[k].case_date),
          CsvField(cases[k].inn)>>]

\* json.dump(cases, f, ensure_ascii=False, indent=4): None is written as null
JsonObjects(cases) == cases

\* what the file holds after a write that is cut short
PartialLines(fmt) == IF fmt = "csv" THEN <<CsvHeader>> ELSE <<>>

FullLines(fmt, cases) ==
    IF fmt = "csv" THEN <<CsvHeader>> \o CsvRows(cases) ELSE JsonObjects(cases)

\* variant: the "if not cases" check is missing
ExportRunNoEmptyCheck(fmt, tbl, conn, io, before) ==
    LET cases == GetAllCasesAsDicts(tbl, conn)
        begin == <<UpdateStatus("exporting", NoCount),
                   Ev("get_all_cases_as_dicts", "call", 0)>> \o DbConnection(conn)
    IN IF io = "open_fails"
       THEN [ok |-> FALSE, file |-> before,
             trace |-> begin \o <<Ev("open", "raises", 0),
                                  UpdateStatus("export_error", NoCount)>>]
       ELSE IF io = "write_fails"
       THEN [ok |-> FALSE, file |-> File(fmt, PartialLines(fmt)),
             trace |-> begin \o <<Ev("open", "ok", 0), Ev("write", "raises", 0),
                                  UpdateStatus("export_error", NoCount)>>]
       ELSE [ok |-> TRUE, file |-> File(fmt, FullLines(fmt, cases)),
             trace |-> begin \o <<Ev("open", "ok", 0), Ev("write", "ok", 0),
                                  UpdateStatus("exported", NoCount)>>]

\* variant: a write that raises goes unnoticed
ExportRunWriteUnchecked(fmt, tbl, conn, io, before) ==
    LET cases == GetAllCasesAsDicts(tbl, conn)
        begin == <<UpdateStatus("exporting", NoCount),
                   Ev("get_all_cases_as_dicts", "call", 0)>> \o DbConnection(conn)
    IN IF Len(cases) = 0
       THEN [ok |-> FALSE, file |-> before,
             trace |-> begin \o <<UpdateStatus("nothing_to_export", NoCount)>>]
       ELSE IF io = "open_fails"
       THEN [ok |-> FALSE, file |-> before,
             trace |-> begin \o <<Ev("open", "raises", 0),
                                  UpdateStatus("export_error", NoCount)>>]
       ELSE IF io = "write_fails"
       THEN [ok |-> TRUE, file |-> File(fmt, PartialLines(fmt)),
             trace |-> begin \o <<Ev("open", "ok", 0), Ev("write", "raises", 0),
                                  UpdateStatus("exported", NoCount)>>]
       ELSE [ok |-> TRUE, file |-> File(fmt, FullLines(fmt, cases)),
             trace |-> begin \o <<Ev("open", "ok", 0), Ev("write", "ok", 0),
                                  UpdateStatus("exported", NoCount)>>]

\* ApplicationLogic.export_data_to_csv (fmt = "csv") and export_data_to_json
\* (fmt = "json").  io is what the file system does: "ok", "open_fails"
\* (open raises) or "write_fails" (the file is opened, a write raises).
ExportRun(fmt, tbl, conn, io, before) ==
    LET cases == GetAllCasesAsDicts(tbl, conn)
        begin == <<UpdateStatus("exporting", NoCount),
                   Ev("get_all_cases_as_dicts", "call", 0)>> \o DbConnection(conn)
    IN IF Len(cases) = 0
       THEN [ok |-> FALSE, file |-> before,
             trace |-> begin \o <<UpdateStatus("nothing_to_export", NoCount)>>]
       ELSE IF io = "open_fails"
       THEN [ok |-> FALSE, file |-> before,
             trace |-> begin \o <<Ev("open", "raises", 0),
                                  UpdateStatus("export_error", NoCount)>>]
       ELSE IF io = "write_fails"
       THEN [ok |-> FALSE, file |-> File(fmt, PartialLines(fmt)),
             trace |-> begin \o <<Ev("open", "ok", 0), Ev("write", "raises", 0),
                                  UpdateStatus("export_error", NoCount)>>]
       ELSE [ok |-> TRUE, file |-> File(fmt, FullLines(fmt, cases)),
             trace |-> begin \o <<Ev("open", "ok", 0), Ev("write", "ok", 0),
                                  UpdateStatus("exported", NoCount)>>]

\* csv.DictReader over the file: the first row names the columns, every other
\* row is one record
ColumnOf(header, name) == CHOOSE i \in 1..Len(header) : header[i] = <<name>>

ParseCsv(lines) ==
    [k \in 1..(Len(lines) - 1) |->
        Case(lines[k + 1][ColumnOf(lines[1], "case_number")],
             lines[k + 1][ColumnOf(lines[1], "case_date")],
             lines[k + 1][ColumnOf(lines[1], "inn")])]

(***************************************************************************)
(* Inputs.                                                                 *)
(***************************************************************************)
Inn10 == Rep("1", 10)
Inn12 == Rep("2", 12)

ValidInns == {Inn10, Inn12}

\* texts a user can type into the taxpayer-ID field
InnInputs ==
    ValidInns \cup
    {<<>>, Rep("1", 9), Rep("1", 11), Rep("1", 13),
     Put(Inn10, 10, "a"), Put(Inn12, 1, " "),
     Rep("sup2", 10), Rep("ar3", 12)}

D1 == DateText("dmy", 15, 3, 2023)
D2 == DateText("dmy", 16, 3, 2023)
DBadCalendar == DateText("dmy", 30, 2, 2023)
DOther == DateText("other", 0, 0, 0)

NumA == <<"A", "1">>
NumB == <<"b", "2">>
NumC == <<"C", "3">>

RowA == PageRow(4, "found", D1, "found", NumA)
RowB == PageRow(4, "found", D2, "found", NumB)
RowFew == PageRow(3, "missing", DOther, "missing", <<>>)
RowNoDate == PageRow(4, "missing", DOther, "found", NumC)
RowNoLink == PageRow(5, "found", D2, "missing", <<>>)
RowBadDate == PageRow(4, "found", DBadCalendar, "found", NumC)
RowOtherDate == PageRow(4, "found", DOther, "found", NumC)
RowBlankNum == PageRow(4, "found", D1, "found", <<" ">>)
RowPadded == PageRow(4, "found", D2, "found", <<" ", "C", "3", " ">>)

HandlerRowKinds == {RowA, RowB, RowFew}

ConnectorRowKinds ==
    {RowA, RowB, RowFew, RowNoDate, RowNoLink, RowBadDate, RowOtherDate,
     RowBlankNum, RowPadded}

SeqsUpTo(S, n) == UNION {[1..k -> S] : k \in 0..n}

NoRows == <<>>

Env(init, fault, rows) == [rows |-> rows, init |-> init, fault |-> fault]

\* what the environment can do during one connector call; when the call does
\* not get as far as a choice, the choice is fixed
Envs(drv, kinds, n) ==
    IF drv = "quit" THEN {Env("ok", "none", NoRows)}
    ELSE (IF drv = "None"
          THEN {Env(i, "none", NoRows) : i \in {"wde", "other"}}
          ELSE {})
         \cup {Env("ok", f, rows) : f \in Faults, rows \in {NoRows, <<RowA>>}}
         \cup {Env("ok", "none", rows) : rows \in SeqsUpTo(kinds, n)}

Conns == {"ok", "refused", "error"}

\* connection outcomes drawn while a handler runs
HandlerConns == {"ok", "refused"}

IsoD1 == <<2023, 3, 15>>
IsoD2 == <<2023, 3, 16>>
IsoBad == <<2023, 2, 30>>

InsertNumbers == {NumA, NumB}
InsertDates == {None, IsoD1, IsoD2, IsoBad}

CaseNumberFilters == {<<>>, <<"a">>, <<"_">>, <<"%", "2">>}
InnFilters == {<<>>, <<"1">>}
StartDateFilters == {<<>>, IsoD1, IsoD2, IsoBad}
EndDateFilters == {<<>>, IsoD1, IsoD2}

IoOutcomes == {"ok", "open_fails", "write_fails"}

Query(cnf, innf, sd, ed) == [cnf |-> cnf, innf |-> innf, sd |-> sd, ed |-> ed]

NoQuery == Query(<<>>, <<>>, <<>>, <<>>)

Queries ==
    {Query(c, i, s, e) : c \in CaseNumberFilters, i \in InnFilters,
                         s \in StartDateFilters, e \in EndDateFilters}

\* what a user types into the filter fields
FormQueries ==
    {NoQuery, Query(<<"a">>, <<>>, <<>>, <<>>), Query(<<>>, <<"1">>, <<>>, <<>>),
     Query(<<>>, <<>>, IsoD2, <<>>), Query(<<>>, <<>>, <<>>, IsoD1),
     Query(<<"_">>, <<"1">>, IsoD1, IsoD2)}

(***************************************************************************)
(* State.                                                                  *)
(*   db      the rows of arbitration_cases                                 *)
(*   driver  ArbitrScraper.driver: "None", "open" or "quit"                *)
(*   op      the last operation and its inputs                             *)
(*   prev    db and driver when the last operation began                   *)
(*   trace   status texts and collaborator calls of the last operation     *)
(*   result  the list the last operation returned or pushed to the view    *)
(*   retOk   the boolean the last operation returned                       *)
(*   raised  the exception that left the last operation, or "none"         *)
(*   file    the target file of the last export: what the file system did  *)
(*           (io), the file before the export and the file after it        *)
(***************************************************************************)
VARIABLES db, driver, op, prev, trace, result, retOk, raised, file

vars == <<db, driver, op, prev, trace, result, retOk, raised, file>>

Target(io, before, after) == [io |-> io, before |-> before, after |-> after]

NoTarget == Target("ok", AbsentFile, AbsentFile)

Op(name, inn, max_results, env, conns, query, cn, date) ==
    [inn |-> inn, cn |-> cn, date |-> date, max_results |-> max_results,
     env |-> env, conns |-> conns, name |-> name, query |-> query]

NoEnv == Env("ok", "none", NoRows)

Prev == [driver |-> driver, db |-> db]

\* main_app: the table is created, the collaborators are constructed
Init ==
    /\ db = <<>>
    /\ driver = "None"
    /\ op = Op("main_app", <<>>, 0, NoEnv, <<>>, NoQuery, <<>>, None)
    /\ prev = [driver |-> "None", db |-> <<>>]
    /\ trace = <<>>
    /\ result = <<>>
    /\ retOk = TRUE
    /\ raised = "none"
    /\ file = NoTarget

\* the process ends and main_app runs again: a new ArbitrScraper, the same store
Restart ==
    /\ op.name # "main_app"
    /\ driver' = "None"
    /\ op' = Op("main_app", <<>>, 0, NoEnv, <<>>, NoQuery, <<>>, None)
    /\ prev' = Prev
    /\ trace' = <<>>
    /\ result' = <<>>
    /\ retOk' = TRUE
    /\ raised' = "none"
    /\ file' = NoTarget
    /\ UNCHANGED db

\* the search button: application_logic.start_scraping(text of the ID field)
StartScraping ==
    \E inn \in InnInputs :
    \E env \in (IF InnAccepted(inn)
                THEN Envs(driver, HandlerRowKinds, MaxPageRows)
                ELSE {NoEnv}) :
    \E ctConn \in HandlerConns, scriptFound \in {TRUE} :
    \E n \in {Len(ScrapeArbitrCases(driver, inn, DefaultMaxResults, env).cases)} :
    \E conns \in [1..n -> HandlerConns] :
    \E r \in {StartScrapingRun(db, driver, inn, env, ctConn, scriptFound, conns)} :
          /\ (Len(conns) = 0 => ctConn = "ok")
          /\ db' = r.tbl
          /\ driver' = r.driver
          /\ op' = Op("start_scraping", inn, DefaultMaxResults, env,
                      <<ctConn>> \o conns, NoQuery, <<>>, None)
          /\ prev' = Prev
          /\ trace' = r.trace
          /\ result' = r.shown
          /\ retOk' = TRUE
          /\ raised' = r.raised
          /\ file' = NoTarget

\* a direct call scraper.scrape_arbitr_cases(inn, max_results)
ScrapeCall ==
    \E inn \in ValidInns, max_results \in 1..MaxResultsBound :
    \E env \in Envs(driver, ConnectorRowKinds, MaxRows) :
    \E r \in {ScrapeArbitrCases(driver, inn, max_results, env)} :
          /\ driver' = r.driver
          /\ op' = Op("scrape_arbitr_cases", inn, max_results, env,
                      <<>>, NoQuery, <<>>, None)
          /\ prev' = Prev
          /\ trace' = r.evs
          /\ result' = r.cases
          /\ retOk' = TRUE
          /\ raised' = IF r.raised THEN "Exception" ELSE "none"
          /\ file' = NoTarget
          /\ UNCHANGED db

\* a direct call db_manager.insert_case(case_number, case_date, inn)
InsertCase ==
    \E cn \in InsertNumbers, date \in InsertDates, inn \in ValidInns,
       conn \in Conns :
       LET r == InsertCaseResult(db, cn, date, inn, conn)
       IN /\ db' = r.tbl
          /\ op' = Op("insert_case", inn, 0, NoEnv, <<conn>>, NoQuery, cn, date)
          /\ prev' = Prev
          /\ trace' = DbConnection(conn)
          /\ result' = <<>>
          /\ retOk' = r.ok
          /\ raised' = "none"
          /\ file' = NoTarget
          /\ UNCHANGED driver

\* a direct call db_manager.get_filtered_cases_as_dicts(...)
GetFilteredCall ==
    \E q \in Queries, conn \in HandlerConns :
       /\ op' = Op("get_filtered_cases_as_dicts", <<>>, 0, NoEnv, <<conn>>, q,
                   <<>>, None)
       /\ prev' = Prev
       /\ trace' = DbConnection(conn)
       /\ result' = GetFilteredCasesAsDicts(db, q.cnf, q.innf, q.sd, q.ed, conn)
       /\ retOk' = TRUE
       /\ raised' = "none"
       /\ file' = NoTarget
       /\ UNCHANGED <<db, driver>>

\* a direct call db_manager.get_all_cases_as_dicts()
GetAllCall ==
    \E conn \in HandlerConns :
       /\ op' = Op("get_all_cases_as_dicts", <<>>, 0, NoEnv, <<conn>>, NoQuery,
                   <<>>, None)
       /\ prev' = Prev
       /\ trace' = DbConnection(conn)
       /\ result' = GetAllCasesAsDicts(db, conn)
       /\ retOk' = TRUE
       /\ raised' = "none"
       /\ file' = NoTarget
       /\ UNCHANGED <<db, driver>>

\* the filter button: application_logic.filter_cases(...)
FilterCases ==
    \E q \in FormQueries, conn \in HandlerConns :
       LET r == FilterCasesRun(db, q.cnf, q.innf, q.sd, q.ed, conn)
       IN /\ op' = Op("filter_cases", <<>>, 0, NoEnv, <<conn>>, q, <<>>, None)
          /\ prev' = Prev
          /\ trace' = r.trace
          /\ result' = r.shown
          /\ retOk' = TRUE
          /\ raised' = "none"
          /\ file' = NoTarget
          /\ UNCHANGED <<db, driver>>

\* an export button with a path chosen in the dialog:
\* application_logic.export_data_to_csv(file_path) / export_data_to_json
Export(fmt) ==
    \E conn \in HandlerConns, io \in IoOutcomes, before \in {AbsentFile, OldFile} :
    \E r \in {ExportRun(fmt, db, conn, io, before)} :
       /\ op' = Op(IF fmt = "csv" THEN "export_data_to_csv"
                                   ELSE "export_data_to_json",
                   <<>>, 0, NoEnv, <<conn>>, NoQuery, <<>>, None)
       /\ prev' = Prev
       /\ trace' = r.trace
       /\ result' = GetAllCasesAsDicts(db, conn)
       /\ retOk' = r.ok
       /\ raised' = "none"
       /\ file' = Target(io, before, r.file)
       /\ UNCHANGED <<db, driver>>

ExportCsv == Export("csv")

ExportJson == Export("json")

\* the application as main.py wires it
Next == StartScraping \/ FilterCases \/ ExportCsv \/ ExportJson \/ Restart

Spec == Init /\ [][Next]_vars

\* the connector used on its own
NextConnector == ScrapeCall

SpecConnector == Init /\ [][NextConnector]_vars

\* the persistence gateway used on its own
NextGateway == InsertCase \/ GetFilteredCall \/ GetAllCall

SpecGateway == Init /\ [][NextGateway]_vars

\* a direct call db_manager.create_table()
CreateTableCall ==
    \E conn \in Conns, scriptFound \in BOOLEAN :
       /\ db' = CreateTable(db, conn, scriptFound)
       /\ op' = Op("create_table", <<>>, 0, NoEnv, <<conn>>, NoQuery, <<>>, None)
       /\ prev' = Prev
       /\ trace' = CreateTableEvents(conn, scriptFound)
       /\ result' = <<>>
       /\ retOk' = CreateTableResult(conn, scriptFound)
       /\ raised' = "none"
       /\ file' = NoTarget
       /\ UNCHANGED driver

\* a direct call db_manager.case_exists(case_number)
CaseExistsCall ==
    \E cn \in InsertNumbers, conn \in Conns :
       /\ op' = Op("case_exists", <<>>, 0, NoEnv, <<conn>>, NoQuery, cn, None)
       /\ prev' = Prev
       /\ trace' = DbConnection(conn)
       /\ result' = <<>>
       /\ retOk' = CaseExists(db, cn, conn)
       /\ raised' = "none"
       /\ file' = NoTarget
       /\ UNCHANGED <<db, driver>>

\* a direct call db_manager.get_all_cases()
GetAllCasesCall ==
    \E conn \in Conns :
       /\ op' = Op("get_all_cases", <<>>, 0, NoEnv, <<conn>>, NoQuery, <<>>, None)
       /\ prev' = Prev
       /\ trace' = DbConnection(conn)
       /\ result' = GetAllCases(db, conn)
       /\ retOk' = TRUE
       /\ raised' = "none"
       /\ file' = NoTarget
       /\ UNCHANGED <<db, driver>>

\* the application together with direct calls of the DBManager operations it
\* does not use itself
NextResources ==
    \/ StartScraping \/ FilterCases \/ ExportCsv \/ ExportJson \/ Restart
    \/ CreateTableCall \/ CaseExistsCall \/ GetAllCasesCall

SpecResources == Init /\ [][NextResources]_vars

\* the exports over a store that was filled by direct inserts
NextArchive == InsertCase \/ ExportCsv \/ ExportJson

SpecArchive == Init /\ [][NextArchive]_vars

(***************************************************************************)
(* Observations on the last operation.                                     *)
(***************************************************************************)
EventsOf(ev) == {i \in 1..Len(trace) : trace[i].ev = ev}

StatusesOf(msg) ==
    {i \in 1..Len(trace) : trace[i].ev = "status" /\ trace[i].msg = msg}

\* calls on the DBManager made by the last operation
PersistEvents ==
    {i \in 1..Len(trace) : trace[i].ev \in {"create_table", "insert_case"}}

Timeouts == {"timeout_input", "timeout_button", "timeout_results"}

\* the connector call of the last operation failed: the session could not be
\* acquired, a bounded wait expired, or another automation fault struck
ConnectorFault ==
    \E i \in 1..Len(trace) :
       \/ trace[i].ev = "fault"
       \/ trace[i].ev = "init_webdriver" /\ trace[i].msg # "ok"

ConnectorTimeout ==
    \E i \in 1..Len(trace) : trace[i].ev = "fault" /\ trace[i].msg \in Timeouts

IsRecordEvent(e) == e.ev = "record"

Min(a, b) == IF a < b THEN a ELSE b

(***************************************************************************)
(* C1.  A taxpayer ID that is empty, has a character that is not a decimal *)
(* digit, or has a length other than 10 or 12 makes start_scraping report  *)
(* the validation error without calling the connector or the DBManager; an *)
(* ID of 10 or 12 decimal digits makes it call the connector exactly once. *)
(***************************************************************************)
C1_ValidationGate ==
    op.name = "start_scraping" =>
       IF IsDecimalStr(op.inn) /\ Len(op.inn) \in {10, 12}
       THEN Cardinality(EventsOf("scrape_arbitr_cases")) = 1
       ELSE /\ EventsOf("scrape_arbitr_cases") = {}
            /\ PersistEvents = {}
            /\ StatusesOf("invalid_inn") # {}

(***************************************************************************)
(* C2.  The table never holds two rows with one case_number, and an        *)
(* insert_case whose case_number is already stored leaves the table as it  *)
(* was (no row added, the stored date and inn kept).                       *)
(***************************************************************************)
UniqueCaseNumbers ==
    \A i, j \in 1..Len(db) : db[i].case_number = db[j].case_number => i = j

DuplicateInsert == op.name = "insert_case" /\ HasCaseNumber(prev.db, op.cn)

\* the statement of the last insert_case ran: a connection was obtained and
\* the date parameter was a calendar date or None
StatementRan == op.conns[1] = "ok" /\ (op.date = None \/ IsIsoDate(op.date))

\* C2 as stated: such an insert also returns true, whatever happens
C2_DuplicateInsertAlwaysTrue ==
    /\ UniqueCaseNumbers
    /\ DuplicateInsert => (db = prev.db /\ retOk)

\* C2 as amended: it returns true exactly when its statement ran; with no
\* connection, or a statement that raises, it returns false
C2_DuplicateInsertIsNoOp ==
    /\ UniqueCaseNumbers
    /\ DuplicateInsert => (db = prev.db /\ (retOk <=> StatementRan))

C2_Witness ==
    /\ DuplicateInsert
    /\ retOk
    /\ \E i \in 1..Len(db) :
          /\ db[i].case_number = op.cn
          /\ db[i].case_date # ToDbDate(op.date)
          /\ db[i].inn # op.inn

(***************************************************************************)
(* C3.  When a bounded wait of the connector expires during a search with  *)
(* a valid ID, start_scraping reports the source-unavailable status.       *)
(***************************************************************************)
C3_TimeoutReported ==
    (op.name = "start_scraping" /\ ConnectorTimeout)
       => StatusesOf("timeout_error") # {}

(***************************************************************************)
(* C4.  A search whose connector call fails makes no create_table and no   *)
(* insert_case call and leaves the table as it was.                        *)
(***************************************************************************)
C4_FailureLeavesStoreAlone ==
    (op.name = "start_scraping" /\ ConnectorFault)
       => (PersistEvents = {} /\ db = prev.db)

C4_Witness ==
    /\ op.name = "start_scraping"
    /\ ConnectorTimeout
    /\ Len(op.env.rows) > 0
    /\ Len(db) > 0

(***************************************************************************)
(* C5.  A connector call that fails returns the empty list and also gives  *)
(* its caller a failure signal, so that the caller can tell it from a      *)
(* call that succeeded and matched no rows.  (Stated for calls on a        *)
(* connector that holds no driver object yet.)                             *)
(***************************************************************************)
C5_FailureSignalled ==
    (op.name = "scrape_arbitr_cases" /\ prev.driver = "None" /\ ConnectorFault)
       => (result = <<>> /\ raised # "none")

(***************************************************************************)
(* C6.  A connector call that holds a browser session closes it exactly    *)
(* once, as its last step, on every exit path; no session is open when the *)
(* call has returned, and a call that holds none closes none.              *)
(***************************************************************************)
SessionHeld ==
    \/ prev.driver # "None"
    \/ \E i \in EventsOf("init_webdriver") : trace[i].msg = "ok"

C6_SessionClosedOnce ==
    op.name = "scrape_arbitr_cases" =>
       /\ driver # "open"
       /\ SessionHeld => /\ Cardinality(EventsOf("quit")) = 1
                         /\ trace[Len(trace)].ev = "quit"
       /\ ~ SessionHeld => EventsOf("quit") = {}

C6_Witness ==
    /\ op.name = "scrape_arbitr_cases"
    /\ prev.driver = "None"
    /\ ConnectorTimeout
    /\ Cardinality(EventsOf("quit")) = 1
    /\ driver = "quit"

(***************************************************************************)
(* C7.  Every connector call acquires a fresh browser session of its own;  *)
(* none navigates with a session that an earlier call has closed.          *)
(***************************************************************************)
C7_FreshSessionPerCall ==
    op.name = "scrape_arbitr_cases" =>
       /\ EventsOf("init_webdriver") # {}
       /\ \A i \in EventsOf("get") : trace[i].msg = "open"

(***************************************************************************)
(* C8.  A connector call returns at most max_results records; the records  *)
(* are in the order of the rows that produced them; and once the           *)
(* max_results-th record is produced no later row is read.  On a page of   *)
(* well-formed rows the result is the first min(max_results, rows) rows.   *)
(***************************************************************************)
RecordEvents == SelectSeq(trace, IsRecordEvent)

RowsRead == IF EventsOf("rows") = {} THEN 0 ELSE trace[CHOOSE i \in EventsOf("rows") : TRUE].n

C8_BoundedInRowOrder ==
    op.name = "scrape_arbitr_cases" =>
       LET recs == RecordEvents
           rows == op.env.rows
       IN /\ Len(result) <= op.max_results
          /\ Len(recs) = Len(result)
          /\ \A k \in 1..Len(recs) :
                /\ recs[k].cn = result[k].case_number
                /\ recs[k].n \in 1..Len(rows)
          /\ \A j, k \in 1..Len(recs) : j < k => recs[j].n < recs[k].n
          /\ Len(result) = op.max_results => RowsRead = recs[Len(recs)].n
          /\ (~ ConnectorFault /\ \A i \in 1..Len(rows) : rows[i] \in {RowA, RowB})
                => /\ Len(result) = Min(op.max_results, Len(rows))
                   /\ \A k \in 1..Len(result) :
                         result[k].case_number = rows[k].linkText

C8_Witness ==
    /\ op.name = "scrape_arbitr_cases"
    /\ Len(op.env.rows) = 3
    /\ op.max_results = 2
    /\ Len(result) = 2
    /\ RowsRead = 2

(***************************************************************************)
(* C9.  A search in which the connector returns N records reports a status *)
(* that carries the count N before the first create_table or insert_case   *)
(* call.                                                                   *)
(***************************************************************************)
ConnectorReturned ==
    /\ op.name = "start_scraping"
    /\ EventsOf("scrape_arbitr_cases") # {}
    /\ raised = "none"

CountReportedFirst(n) ==
    \E i \in 1..Len(trace) :
       /\ trace[i].ev = "status"
       /\ trace[i].n = n
       /\ \A j \in PersistEvents : i < j

ContainsFolded(s, f) ==
    \E k \in 0..(Len(s) - Len(f)) :
       \A j \in 1..Len(f) : Lower(s[k + j]) = Lower(f[j])

Contains(s, f) ==
    \E k \in 0..(Len(s) - Len(f)) : \A j \in 1..Len(f) : s[k + j] = f[j]

PassesFilters(r, q) ==
    /\ (Len(q.cnf) > 0 => ContainsFolded(r.case_number, q.cnf))
    /\ (Len(q.innf) > 0 => Contains(r.inn, q.innf))
    /\ (Len(q.sd) > 0 => (r.case_date # DbNull /\ DateLE(q.sd, IsoFormat(r.case_date))))
    /\ (Len(q.ed) > 0 => (r.case_date # DbNull /\ DateLE(IsoFormat(r.case_date), q.ed)))

RECURSIVE ExpectedRecords(_, _)
ExpectedRecords(tbl, q) ==
    IF Len(tbl) = 0 THEN <<>>
    ELSE (IF PassesFilters(Head(tbl), q) THEN <<RowToDict(Head(tbl))>> ELSE <<>>)
         \o ExpectedRecords(Tail(tbl), q)

C10_FilterIsLiteral ==
    (/\ op.name = "get_filtered_cases_as_dicts"
     /\ op.conns[1] = "ok"
     /\ (Len(op.query.sd) > 0 => IsIsoDate(op.query.sd))
     /\ (Len(op.query.ed) > 0 => IsIsoDate(op.query.ed)))
       => result = ExpectedRecords(db, op.query)

(***************************************************************************)
(* C11: for every persisted set, get_filtered_cases_as_dicts called with   *)
(* no filter set returns the same set of records as get_all_cases_as_dicts *)
(* does on the same store and connection (the order is left open).         *)
(***************************************************************************)
RecordSet(recs) == {recs[k] : k \in 1..Len(recs)}

C11_NoFilterIsGetAll ==
    /\ (op.name = "get_filtered_cases_as_dicts" /\ op.query = NoQuery)
          => RecordSet(result) = RecordSet(GetAllCasesAsDicts(db, op.conns[1]))
    /\ op.name = "get_all_cases_as_dicts"
          => RecordSet(result)
               = RecordSet(GetFilteredCasesAsDicts(db, <<>>, <<>>, <<>>, <<>>,
                                                   op.conns[1]))

\* an unfiltered query answered from a store of two records, one without a date
C11_Witness ==
    /\ op.name = "get_filtered_cases_as_dicts"
    /\ op.query = NoQuery
    /\ op.conns[1] = "ok"
    /\ Len(result) >= 2
    /\ \E k \in 1..Len(result) : result[k].case_date = None
    /\ \E k \in 1..Len(result) : result[k].case_date # None

(***************************************************************************)
(* C12: a filtered query returns no record whose case_date is before       *)
(* start_date or after end_date.  As first stated it also returns every    *)
(* persisted record dated exactly start_date or end_date.  What holds: when *)
(* the statement executes, it returns every record of the same query       *)
(* without date bounds whose case_date lies within [start_date, end_date], *)
(* both bounds included.                                                   *)
(***************************************************************************)
DateBoundsUsable(q) ==
    /\ (Len(q.sd) > 0 => IsIsoDate(q.sd))
    /\ (Len(q.ed) > 0 => IsIsoDate(q.ed))

\* the record's date is within the bounds that are set
WithinBounds(rec, q) ==
    /\ (Len(q.sd) > 0 => (rec.case_date # None /\ DateLE(q.sd, rec.case_date)))
    /\ (Len(q.ed) > 0 => (rec.case_date # None /\ DateLE(rec.case_date, q.ed)))

NothingOutsideBounds ==
    \A k \in 1..Len(result) : WithinBounds(result[k], op.query)

\* the same query asked without its date bounds
WithoutDateBounds ==
    GetFilteredCasesAsDicts(db, op.query.cnf, op.query.innf, <<>>, <<>>,
                            op.conns[1])

C12_BoundaryDatesReturned ==
    (/\ op.name = "get_filtered_cases_as_dicts"
     /\ op.conns[1] = "ok"
     /\ DateBoundsUsable(op.query)
     /\ op.query.cnf = <<>> /\ op.query.innf = <<>>)
       => /\ NothingOutsideBounds
          /\ \A i \in 1..Len(db) :
                (\/ (Len(op.query.sd) > 0 /\ IsoFormat(db[i].case_date) = op.query.sd)
                 \/ (Len(op.query.ed) > 0 /\ IsoFormat(db[i].case_date) = op.query.ed))
                   => RowToDict(db[i]) \in RecordSet(result)

C12_DateRangeInclusive ==
    op.name = "get_filtered_cases_as_dicts"
       => /\ NothingOutsideBounds
          /\ (op.conns[1] = "ok" /\ DateBoundsUsable(op.query))
                => \A r \in RecordSet(WithoutDateBounds) :
                      WithinBounds(r, op.query) => r \in RecordSet(result)

\* both bounds set, one record dated on each bound, both returned
C12_Witness ==
    /\ op.name = "get_filtered_cases_as_dicts"
    /\ op.conns[1] = "ok"
    /\ op.query.sd = IsoD1 /\ op.query.ed = IsoD2
    /\ \E k \in 1..Len(result) : result[k].case_date = IsoD1
    /\ \E k \in 1..Len(result) : result[k].case_date = IsoD2

(***************************************************************************)
(* C13: when the persisted set is empty, export_data_to_csv and            *)
(* export_data_to_json return false, do not open or create the target      *)
(* file and report the "nothing to export" status; when it is not empty    *)
(* and the write succeeds, they return true.                               *)
(***************************************************************************)
IsExport == op.name \in {"export_data_to_csv", "export_data_to_json"}

WriteSucceeded ==
    \E i \in EventsOf("write") : trace[i].msg = "ok"

C13_EmptyExportSkipsWrite ==
    IsExport =>
       /\ db = <<>> => /\ retOk = FALSE
                       /\ EventsOf("open") = {}
                       /\ file.after = file.before
                       /\ StatusesOf("nothing_to_export") # {}
                       /\ StatusesOf("export_error") = {}
       /\ (db # <<>> /\ WriteSucceeded) => retOk = TRUE

\* an export over the empty store that leaves an older file at the path alone
C13_Witness ==
    /\ IsExport
    /\ db = <<>>
    /\ op.conns[1] = "ok"
    /\ file.io = "ok"
    /\ file.before = OldFile
    /\ file.after = OldFile
    /\ retOk = FALSE

(***************************************************************************)
(* C14: for every non-empty persisted set, a successful export_data_to_csv *)
(* writes the header row case_number,case_date,inn, and parsing the file   *)
(* back yields the tuples of get_all_cases_as_dicts in the same order.  As *)
(* first stated this includes records whose case_date is null.  What       *)
(* holds: a record with a case_date reads back as it was returned; a null  *)
(* case_date is written as an empty field and reads back as the empty      *)
(* string.                                                                 *)
(***************************************************************************)
CsvExported == op.name = "export_data_to_csv" /\ retOk = TRUE

HeaderRowWritten ==
    /\ Len(file.after.lines) >= 1
    /\ file.after.lines[1] = <<<<"case_number">>, <<"case_date">>, <<"inn">>>>

ReadBack(rec) ==
    IF rec.case_date = None THEN Case(rec.case_number, <<>>, rec.inn) ELSE rec

IsHandler ==
    op.name \in {"start_scraping", "filter_cases", "export_data_to_csv",
                 "export_data_to_json"}

\* the scraper raised out of scrape_arbitr_cases during the last operation
ScraperRaised ==
    \E i \in EventsOf("init_webdriver") : trace[i].msg = "other"

C15_NoExceptionEscapes ==
    IsHandler =>
       /\ raised = "none"
       /\ ScraperRaised => StatusesOf("none_found_or_error") # {}

(***************************************************************************)
(* C16: insert_case returns true exactly when the INSERT ... ON CONFLICT   *)
(* DO NOTHING statement was executed and committed, the row being added or *)
(* the duplicate skipped; when no connection can be obtained or the        *)
(* database raises an error it returns false and the persisted set is      *)
(* unchanged.                                                              *)
(***************************************************************************)
C16_InsertReturnValue ==
    op.name = "insert_case" =>
       /\ retOk <=> StatementRan
       /\ retOk => db = (IF HasCaseNumber(prev.db, op.cn)
                         THEN prev.db
                         ELSE Append(prev.db,
                                     Row(op.cn, ToDbDate(op.date), op.inn)))
       /\ ~ retOk => db = prev.db

\* the database raises on an insert into a store that already holds a row
C16_Witness ==
    /\ op.name = "insert_case"
    /\ op.conns[1] = "error"
    /\ ~ HasCaseNumber(prev.db, op.cn)
    /\ Len(prev.db) > 0
    /\ retOk = FALSE

(***************************************************************************)
(* C17: a result row with fewer than 4 cells adds no record to the output, *)
(* whatever rows precede it; for the rows [valid A, row with fewer than 4  *)
(* cells, valid B] the output is exactly [A, B], no record repeated.       *)
(***************************************************************************)
ShortRow(row) == row.ncells < 4

C17_ShortRowAddsNothing ==
    (op.name = "scrape_arbitr_cases" /\ ~ ConnectorFault) =>
       /\ \A k \in 1..Len(RecordEvents) :
             ~ ShortRow(op.env.rows[RecordEvents[k].n])
       /\ \A j, k \in 1..Len(result) : j < k => result[j] # result[k]
       /\ (op.env.rows = <<RowA, RowFew, RowB>> /\ op.max_results >= 2)
             => result = <<Case(NumA, IsoD1, op.inn), Case(NumB, IsoD2, op.inn)>>

(***************************************************************************)
(* C18: a row whose date element or case-number link cannot be found adds  *)
(* no record and does not end the batch: every later row is still          *)
(* processed, a later valid row still yields its own record, and no error  *)
(* is raised for the skipped row.                                          *)
(***************************************************************************)
ElementMissing(row) ==
    row.ncells >= 4 /\ (row.dateEl = "missing" \/ row.linkEl = "missing")

ValidRow(row) ==
    /\ row.ncells >= 4
    /\ row.dateEl = "found" /\ StrptimeOk(row.dateText)
    /\ row.linkEl = "found" /\ Len(Strip(row.linkText)) > 0

\* row j of the page yielded a record built from its own date and link text
YieldsOwnRecord(j) ==
    \E k \in 1..Len(RecordEvents) :
       /\ RecordEvents[k].n = j
       /\ result[k] = Case(Strip(op.env.rows[j].linkText),
                           ParseCaseDate(op.env.rows[j].dateText), op.inn)

C18_MissingElementSkipsRow ==
    (op.name = "scrape_arbitr_cases" /\ ~ ConnectorFault) =>
       \A i \in 1..RowsRead :
          ElementMissing(op.env.rows[i]) =>
             /\ \A k \in 1..Len(RecordEvents) : RecordEvents[k].n # i
             /\ raised = "none"
             /\ RowsRead < Len(op.env.rows) => Len(result) = op.max_results
             /\ \A j \in (i + 1)..RowsRead :
                   ValidRow(op.env.rows[j]) => YieldsOwnRecord(j)

\* a valid row, a row without its link, a valid row: two records
C18_Witness ==
    /\ op.name = "scrape_arbitr_cases"
    /\ op.env.rows = <<RowA, RowNoLink, RowB>>
    /\ RowsRead = 3
    /\ Len(result) = 2
    /\ YieldsOwnRecord(3)

(***************************************************************************)
(* C19: a row whose case number is extracted but whose date text does not  *)
(* parse as day.month.year is kept in the output as a record with          *)
(* case_date None; it is not dropped and does not abort the row or batch.  *)
(***************************************************************************)
DateUnparsable(row) ==
    /\ row.ncells >= 4
    /\ row.dateEl = "found" /\ ~ StrptimeOk(row.dateText)
    /\ row.linkEl = "found" /\ Len(Strip(row.linkText)) > 0

C19_UnparsableDateKept ==
    (op.name = "scrape_arbitr_cases" /\ ~ ConnectorFault) =>
       \A i \in 1..RowsRead :
          DateUnparsable(op.env.rows[i]) =>
             \E k \in 1..Len(RecordEvents) :
                /\ RecordEvents[k].n = i
                /\ result[k] = Case(Strip(op.env.rows[i].linkText), None, op.inn)

(***************************************************************************)
(* C20: every record returned by scrape_arbitr_cases(inn) has inn equal to *)
(* the queried ID, case_number equal to the non-empty text of its row's    *)
(* case link, and case_date equal to its row's DD.MM.YYYY date rewritten   *)
(* as YYYY-MM-DD: each record is built only from the fields of its own row.*)
(***************************************************************************)
BuiltFromRow(rec, row) ==
    /\ row.ncells >= 4
    /\ row.linkEl = "found"
    /\ Len(rec.case_number) > 0
    /\ rec.case_number = Strip(row.linkText)
    /\ row.dateEl = "found"
    /\ row.dateText.fmt = "dmy"
    /\ rec.case_date = <<row.dateText.y, row.dateText.m, row.dateText.d>>

C20_RecordFromOwnRow ==
    op.name = "scrape_arbitr_cases" =>
       \A k \in 1..Len(result) :
          /\ result[k].inn = op.inn
          /\ BuiltFromRow(result[k], op.env.rows[RecordEvents[k].n])

(***************************************************************************)
(* C21: when the database connection fails during the insert batch of a    *)
(* search, start_scraping reports a database-connection error status and   *)
(* the batch stops: no insert_case is attempted for the remaining records, *)
(* and the records inserted before the fault stay persisted.               *)
(***************************************************************************)
IsInsertEvent(e) == e.ev = "insert_case"

InsertEvents == SelectSeq(trace, IsInsertEvent)

\* the connection outcome of the k-th insert_case of the last search
InsertConn(k) == op.conns[k + 1]

ConnectionFailedInBatch ==
    /\ op.name = "start_scraping"
    /\ \E k \in 1..Len(InsertEvents) : InsertConn(k) = "refused"

FirstFailedInsert ==
    CHOOSE k \in 1..Len(InsertEvents) :
       /\ InsertConn(k) = "refused"
       /\ \A j \in 1..(k - 1) : InsertConn(j) # "refused"

C21_BatchStopsOnConnectionFault ==
    ConnectionFailedInBatch =>
       /\ StatusesOf("db_connection_error") # {}
       /\ Len(InsertEvents) = FirstFailedInsert
       /\ \A j \in 1..(FirstFailedInsert - 1) :
             HasCaseNumber(db, InsertEvents[j].cn)

(***************************************************************************)
(* C22: in a search that scraped at least one record, start_scraping calls *)
(* insert_case exactly once for each scraped record, in list order; an     *)
(* insert that returns false does not stop the inserts of the later        *)
(* records, and the count reported afterwards equals the number of         *)
(* insert_case calls that returned true.                                   *)
(***************************************************************************)
ScrapedSome == ConnectorReturned /\ Len(result) >= 1

InsertsReturnedTrue ==
    Cardinality({k \in 1..Len(InsertEvents) : InsertEvents[k].msg = "true"})

C22_OneInsertPerRecord ==
    ScrapedSome =>
       /\ Len(InsertEvents) = Len(result)
       /\ \A k \in 1..Len(result) :
             /\ InsertEvents[k].n = k
             /\ InsertEvents[k].cn = result[k].case_number
             /\ InsertEvents[k].msg = "true" <=> InsertConn(k) = "ok"
       /\ \E i \in StatusesOf("inserted") :
             /\ trace[i].n = InsertsReturnedTrue
             /\ \A j \in EventsOf("insert_case") : j < i

\* two records, the first insert fails, the second is still made and counted
C22_Witness ==
    /\ ScrapedSome
    /\ Len(result) = 2
    /\ InsertEvents[1].msg = "false"
    /\ InsertEvents[2].msg = "true"
    /\ InsertsReturnedTrue = 1
    /\ HasCaseNumber(db, result[2].case_number)
    /\ ~ HasCaseNumber(db, result[1].case_number)

(***************************************************************************)
(* C23: in every reachable state at most one browser session and at most   *)
(* one database connection is open; every DBManager operation opens its    *)
(* own connection and closes it before returning, on success and on a      *)
(* database error, so no connection is open between operations.            *)
(***************************************************************************)
Opens(e, kind) ==
    IF kind = "connection" THEN e.ev = "connect" /\ e.msg = "ok"
    ELSE e.ev = "init_webdriver" /\ e.msg = "ok"

Closes(e, kind) ==
    IF kind = "connection" THEN e.ev = "close"
    ELSE e.ev = "quit" /\ e.msg = "open"

\* how many sessions / connections are open after the first i events
RECURSIVE Held(_, _)
Held(kind, i) ==
    IF i = 0 THEN 0
    ELSE Held(kind, i - 1)
         + (IF Opens(trace[i], kind) THEN 1 ELSE 0)
         - (IF Closes(trace[i], kind) THEN 1 ELSE 0)

DbOperations ==
    {"create_table", "insert_case", "case_exists", "get_all_cases",
     "get_all_cases_as_dicts", "get_filtered_cases_as_dicts"}

\* the connection an operation opened is closed by the next event
ClosedAtOnce ==
    \A i \in 1..Len(trace) :
       Opens(trace[i], "connection")
          => (i < Len(trace) /\ Closes(trace[i + 1], "connection"))

C23_OneSessionOneConnection ==
    /\ driver # "open"
    /\ \A i \in 0..Len(trace) :
          /\ Held("session", i) \in {0, 1}
          /\ Held("connection", i) \in {0, 1}
          /\ Held("session", i) + Held("connection", i) <= 1
    /\ Held("session", Len(trace)) = 0
    /\ Held("connection", Len(trace)) = 0
    /\ ClosedAtOnce
    /\ \A i \in 1..Len(trace) :
          (trace[i].ev \in DbOperations /\ trace[i].msg = "true")
             => (i + 2 <= Len(trace) /\ Opens(trace[i + 1], "connection"))
    /\ (op.name \in DbOperations /\ op.conns[1] # "refused"
          /\ (op.name = "create_table" => EventsOf("connect") # {}))
          => \E i \in 1..Len(trace) : Closes(trace[i], "connection")

\* a direct operation whose statement raised a database error: its connection
\* was opened and is closed
C23_Witness ==
    /\ op.name \in {"create_table", "case_exists", "get_all_cases"}
    /\ op.conns[1] = "error"
    /\ Len(db) > 0
    /\ EventsOf("connect") # {}
    /\ EventsOf("close") # {}
    /\ Held("connection", Len(trace)) = 0

(***************************************************************************)
(* C24: across any sequence of search, filter and export operations the    *)
(* persisted set only grows: a record once persisted is never deleted and  *)
(* its case_number, case_date and inn never change; filter_cases,          *)
(* export_data_to_csv and export_data_to_json leave the persisted set      *)
(* unchanged.                                                              *)
(***************************************************************************)
ReadOnlyHandlers == {"filter_cases", "export_data_to_csv", "export_data_to_json"}

StoreStep ==
    /\ \A i \in 1..Len(db) : \E j \in 1..Len(db') : db'[j] = db[i]
    /\ op'.name \in ReadOnlyHandlers => db' = db

C24_StoreOnlyGrows == [][StoreStep]_vars

\* a search added a row to a store that already held one, and met a duplicate
C24_Witness ==
    /\ op.name = "start_scraping"
    /\ Len(prev.db) >= 1
    /\ Len(db) > Len(prev.db)
    /\ \E k \in 1..Len(result) : HasCaseNumber(prev.db, result[k].case_number)
    /\ \A i \in 1..Len(prev.db) : db[i] = prev.db[i]

(***************************************************************************)
(* C25: in a search whose connector call returns at least one record, the  *)
(* count status is reported, then the records are pushed to the results    *)
(* view, then create_table is called once, then the inserts run; no        *)
(* insert_case precedes create_table.  With zero records the empty list is *)
(* pushed to the results view and neither create_table nor insert_case is  *)
(* called.                                                                 *)
(***************************************************************************)
ShownInView(n) ==
    {i \in EventsOf("gui_results_updater") : trace[i].msg = "show" /\ trace[i].n = n}

C25_SearchStepOrder ==
    ConnectorReturned =>
       IF Len(result) >= 1
       THEN /\ Cardinality(EventsOf("create_table")) = 1
            /\ Cardinality(EventsOf("gui_results_updater")) = 1
            /\ EventsOf("insert_case") # {}
            /\ \E c \in StatusesOf("found") :
               \E g \in ShownInView(Len(result)) :
               \E t \in EventsOf("create_table") :
                  /\ trace[c].n = Len(result)
                  /\ c < g /\ g < t
                  /\ \A j \in EventsOf("insert_case") : t < j
       ELSE /\ ShownInView(0) # {}
            /\ EventsOf("create_table") = {}
            /\ EventsOf("insert_case") = {}

\* two records: shown, then the table ensured, then two inserts
C25_Witness ==
    /\ ConnectorReturned
    /\ Len(result) = 2
    /\ Cardinality(EventsOf("insert_case")) = 2
    /\ \E t \in EventsOf("create_table") : trace[t].msg = "true"
    /\ Len(db) > Len(prev.db)

(***************************************************************************)
(* C26: when browser session acquisition fails, _initialize_webdriver      *)
(* leaves scraper.driver as None, and scrape_arbitr_cases                  *)
(* returns an empty list without navigating to the site, without trying    *)
(* acquisition a second time within that call and without calling quit on  *)
(* any session.                                                            *)
(***************************************************************************)
AcquisitionFailed ==
    /\ op.name = "scrape_arbitr_cases"
    /\ \E i \in EventsOf("init_webdriver") : trace[i].msg # "ok"

NoSessionUsed ==
    /\ driver = "None"
    /\ Cardinality(EventsOf("init_webdriver")) = 1
    /\ EventsOf("get") = {}
    /\ EventsOf("quit") = {}
    /\ result = <<>>

C26_AcquisitionFailureReturnsEmpty ==
    AcquisitionFailed => (NoSessionUsed /\ raised = "none")

(***************************************************************************)
(* C27: when writing the export file fails (the file cannot be opened or   *)
(* written), export_data_to_csv and export_data_to_json report an          *)
(* export-error status, return false, raise nothing to the caller and      *)
(* leave the persisted set unchanged.                                      *)
(***************************************************************************)
FileWriteFailed ==
    /\ IsExport
    /\ \E i \in EventsOf("open") \cup EventsOf("write") : trace[i].msg = "raises"

C27_ExportFaultReported ==
    FileWriteFailed =>
       /\ StatusesOf("export_error") # {}
       /\ StatusesOf("exported") = {}
       /\ retOk = FALSE
       /\ raised = "none"
       /\ db = prev.db

\* a write that fails after the file was opened over an older file
C27_Witness ==
    /\ FileWriteFailed
    /\ file.io = "write_fails"
    /\ file.before = OldFile
    /\ file.after # OldFile
    /\ Len(db) > 0
    /\ retOk = FALSE

(***************************************************************************)
(* C28: every record that any sequence of start_scraping operations        *)
(* persists has a taxpayer ID made of exactly 10 or 12 decimal digits,     *)
(* equal to the ID given to the search that inserted it, together with a   *)
(* non-empty case_number.                                                  *)
(***************************************************************************)
C28_PersistedTaxpayerId ==
    /\ \A i \in 1..Len(db) :
          /\ IsDecimalStr(db[i].inn)
          /\ Len(db[i].inn) \in {10, 12}
          /\ Len(db[i].case_number) > 0
    /\ op.name = "start_scraping"
          => \A i \in (Len(prev.db) + 1)..Len(db) : db[i].inn = op.inn

(***************************************************************************)
(* C29: the number N in the final persistence status of a search           *)
(* ("successfully inserted N new cases, existing ones skipped") equals the *)
(* number of rows that this search actually added to the persisted set;    *)
(* records whose case_number was already persisted are not counted.        *)
(***************************************************************************)
C29_CountIsRowsAdded ==
    op.name = "start_scraping" =>
       \A i \in StatusesOf("inserted") : trace[i].n = Len(db) - Len(prev.db)

(***************************************************************************)
(* C30: when the database cannot be reached, the read paths behave exactly *)
(* as they do on an empty store: filter_cases reports that 0 cases were    *)
(* found and pushes an empty list to the results view, and the exports     *)
(* report "no data to export" and return false without touching the file;  *)
(* no error status is reported by these operations.                        *)
(***************************************************************************)
Unreachable == op.name \in ReadOnlyHandlers /\ op.conns[1] = "refused"

NotConnectionEvent(e) == e.ev \notin {"connect", "close"}

\* what the presentation layer and the file system see of an operation
Visible(tr) == SelectSeq(tr, NotConnectionEvent)

\* the same operation on an empty store that can be reached
OnEmptyStore ==
    IF op.name = "filter_cases"
    THEN FilterCasesRun(<<>>, op.query.cnf, op.query.innf, op.query.sd,
                        op.query.ed, "ok").trace
    ELSE ExportRun(IF op.name = "export_data_to_csv" THEN "csv" ELSE "json",
                   <<>>, "ok", file.io, file.before).trace

ErrorStatuses == {"export_error", "db_connection_error", "db_error"}

C30_UnreachableReadsAsEmpty ==
    Unreachable =>
       /\ Visible(trace) = Visible(OnEmptyStore)
       /\ \A i \in 1..Len(trace) :
             trace[i].ev = "status" => trace[i].msg \notin ErrorStatuses
       /\ db = prev.db
       /\ IF op.name = "filter_cases"
          THEN /\ result = <<>>
               /\ \E i \in StatusesOf("filtered") : trace[i].n = 0
               /\ ShownInView(0) # {}
          ELSE /\ retOk = FALSE
               /\ StatusesOf("nothing_to_export") # {}
               /\ EventsOf("open") = {}
               /\ file.after = file.before

\* a filter over a store of two records that cannot be reached
C30_Witness ==
    /\ Unreachable
    /\ op.name = "filter_cases"
    /\ Len(db) = 2
    /\ result = <<>>
    /\ ShownInView(0) # {}

====
